---- MODULE Spec2Model ----
(***************************************************************************)
(* Model of the fitness-export readers: workoutCalculator                  *)
(* (src/workoutReader.js) and healthMetricsCounter (healthReader.js).      *)
(*                                                                         *)
(* Strings are sequences of one-character strings.  Numbers are kept in    *)
(* tenths (the value 7.5 is the integer 75): every duration the model      *)
(* draws has at most one fractional digit, and that digit is 0 or 5, so    *)
(* the IEEE-754 sums the program computes are exact and agree with the     *)
(* fixed-point sums computed here.                                         *)
(***************************************************************************)
EXTENDS Integers, Sequences, FiniteSets, TLC

\* Largest number of data rows the csv parser emits for one file.
MaxRows == 3

----------------------------------------------------------------------------
(* Characters and numeric parsing                                          *)

Digits == {"0", "1", "2", "3", "4", "5", "6", "7", "8", "9"}

DigitVal(c) ==
    CASE c = "0" -> 0 [] c = "1" -> 1 [] c = "2" -> 2 [] c = "3" -> 3
      [] c = "4" -> 4 [] c = "5" -> 5 [] c = "6" -> 6 [] c = "7" -> 7
      [] c = "8" -> 8 [] c = "9" -> 9

RECURSIVE Pow10(_)
Pow10(n) == IF n <= 0 THEN 1 ELSE 10 * Pow10(n - 1)

\* Index of the first character of s at or after k that is not white space.
RECURSIVE SkipWhiteSpace(_, _)
SkipWhiteSpace(s, k) ==
    IF k <= Len(s) /\ s[k] = " " THEN SkipWhiteSpace(s, k + 1) ELSE k

\* Number of consecutive decimal digits of s starting at index k.
RECURSIVE CountDigits(_, _)
CountDigits(s, k) ==
    IF k <= Len(s) /\ s[k] \in Digits THEN 1 + CountDigits(s, k + 1) ELSE 0

\* Value of the n decimal digits of s starting at index k, skipping a dot.
RECURSIVE DigitsValue(_, _, _)
DigitsValue(s, k, n) ==
    IF n = 0 THEN 0
    ELSE IF s[k] = "." THEN DigitsValue(s, k + 1, n)
    ELSE DigitVal(s[k]) * Pow10(n - 1) + DigitsValue(s, k + 1, n - 1)

NaN == [nan |-> TRUE, val |-> 0]

\* Number of fraction digits when index d, right after the integer digits,
\* holds a dot.
FractionDigits(s, d) ==
    IF d <= Len(s) /\ s[d] = "." THEN CountDigits(s, d + 1) ELSE 0

\* Index right after the mantissa whose integer digits end before index d.
EndOfMantissa(s, d, nFrac) ==
    IF d <= Len(s) /\ s[d] = "." THEN d + 1 + nFrac ELSE d

\* Value of the exponent part at index q: e or E, an optional sign and at
\* least one digit; 0 when there is none.
ExponentAt(s, q) ==
    IF q <= Len(s) /\ s[q] \in {"e", "E"}
    THEN IF q + 1 <= Len(s) /\ s[q + 1] \in {"+", "-"}
         THEN (IF s[q + 1] = "-" THEN -1 ELSE 1)
              * DigitsValue(s, q + 2, CountDigits(s, q + 2))
         ELSE DigitsValue(s, q + 1, CountDigits(s, q + 1))
    ELSE 0

\* mant * 10^(expo - nFrac), in tenths.
Magnitude(mant, nFrac, expo) ==
    IF 1 - nFrac + expo >= 0 THEN mant * Pow10(1 - nFrac + expo)
    ELSE mant \div Pow10(nFrac - expo - 1)

\* The literal at index p with nInt integer and nFrac fraction digits.
AfterFraction(s, p, neg, nInt, nFrac) ==
    IF nInt + nFrac = 0 THEN NaN
    ELSE [nan |-> FALSE,
          val |-> (IF neg THEN -1 ELSE 1)
                  * Magnitude(DigitsValue(s, p, nInt + nFrac), nFrac,
                              ExponentAt(s, EndOfMantissa(s, p + nInt, nFrac)))]

AfterInteger(s, p, neg, nInt) ==
    AfterFraction(s, p, neg, nInt, FractionDigits(s, p + nInt))

AfterSign(s, p, neg) == AfterInteger(s, p, neg, CountDigits(s, p))

AfterWhiteSpace(s, start) ==
    IF start <= Len(s) /\ s[start] \in {"+", "-"}
    THEN AfterSign(s, start + 1, s[start] = "-")
    ELSE AfterSign(s, start, FALSE)

\* The JavaScript parseFloat truncated to integers, as parseInt would parse.
parseFloat_Truncating(s) ==
    LET start  == SkipWhiteSpace(s, 1)
        signed == start <= Len(s) /\ s[start] \in {"+", "-"}
        neg    == signed /\ s[start] = "-"
        p      == IF signed THEN start + 1 ELSE start
        nInt   == CountDigits(s, p)
    IN  IF nInt = 0 THEN NaN
        ELSE [nan |-> FALSE,
              val |-> (IF neg THEN -1 ELSE 1) * DigitsValue(s, p, nInt) * 10]

\* JavaScript parseFloat: skip leading white space, then read the longest
\* prefix that is a decimal literal (sign, digits, fraction, exponent) and
\* ignore the rest; NaN when there is no such prefix.  val is in tenths.
parseFloat(s) == AfterWhiteSpace(s, SkipWhiteSpace(s, 1))

----------------------------------------------------------------------------
(* Input domains                                                           *)

\* Duration cells a workout file may carry (csv-parser yields raw strings).
Durations ==
    { <<>>,
      <<"3", "0">>,
      <<"0">>,
      <<"7", ".", "5">>,
      <<".", "5">>,
      <<"a", "b", "c">>,
      <<"3", "0", "m", "i", "n">>,
      <<"1", ",", "2", "0", "0">>,
      <<"-", "1", "5">>,
      <<" ", "1", "5">>,
      <<"1", "e", "2">> }

\* A row record: hasDuration is whether the object has a duration key.
NoDuration == [hasDuration |-> FALSE, duration |-> <<>>]

RowsFor(h) ==
    {NoDuration} \cup
    (IF "duration" \in h
        THEN {[hasDuration |-> TRUE, duration |-> d] : d \in Durations}
        ELSE {})

\* Header lines: the column names the first line of the file declares.
HeaderSets == { {"date", "duration"}, {"date", "type"}, {"just some text"} }

----------------------------------------------------------------------------
(* Errors, console output, return values                                   *)

NoError == [code |-> "", name |-> "", message |-> ""]

\* Errors the file system raises when the path cannot be read.
ENOENT == [code |-> "ENOENT", name |-> "Error",
           message |-> "ENOENT: no such file or directory"]
EACCES == [code |-> "EACCES", name |-> "Error",
           message |-> "EACCES: permission denied"]
EIO    == [code |-> "EIO", name |-> "Error", message |-> "EIO: i/o error"]

\* Errors the csv parser emits while decoding.
ParserErrors ==
    { [code |-> "", name |-> "RangeError",
       message |-> "Row length does not match headers"],
      [code |-> "", name |-> "TypeError", message |-> ""] }

\* One console.log call.
LogEntry(m, r, w, v, d) ==
    [msg |-> m, row |-> r, raw |-> w, value |-> v, detail |-> d]

MissingDuration(r)    == LogEntry("Warning: missing duration", r, <<>>, 0, "")
InvalidDuration(r, w) == LogEntry("Warning: invalid duration", r, w, 0, "")
NegativeDuration(r, v) == LogEntry("Warning: negative duration", r, <<>>, v, "")
FileNotFound == LogEntry("File not found - check the file path", 0, <<>>, 0, "")
NotAnArray ==
    LogEntry("CSV file was not parsed into an array - check the file format",
             0, <<>>, 0, "")
CsvError(d) == LogEntry("Error processing CSV file:", 0, <<>>, 0, d)

\* Return values of workoutCalculator.
Pending == [kind |-> "pending", totalWorkouts |-> 0, totalMinutes |-> 0]
Null    == [kind |-> "null", totalWorkouts |-> 0, totalMinutes |-> 0]
Aggregate(w, m) == [kind |-> "aggregate", totalWorkouts |-> w, totalMinutes |-> m]

----------------------------------------------------------------------------
(* JSON documents                                                          *)

\* Largest metrics array a health file carries.
MaxMetrics == 3

\* A JavaScript value as JSON.parse builds it.  n is the value of a number,
\* the number of characters of a string, the number of entries of an array
\* or the number of keys of an object other than `length`; lenType and lenN
\* describe an object's own `length` property ("undefined" when it has none).
JsValue(t, b, n, lt, ln) ==
    [type |-> t, b |-> b, n |-> n, lenType |-> lt, lenN |-> ln]

Undefined   == JsValue("undefined", FALSE, 0, "undefined", 0)
NotReturned == JsValue("pending", FALSE, 0, "undefined", 0)
JsNull      == JsValue("null", FALSE, 0, "undefined", 0)
JsBool(b)   == JsValue("boolean", b, 0, "undefined", 0)
JsNumber(n) == JsValue("number", FALSE, n, "undefined", 0)
JsString(n) == JsValue("string", FALSE, n, "undefined", 0)
JsArray(n)  == JsValue("array", FALSE, n, "undefined", 0)
JsObject(n, lt, ln) == JsValue("object", FALSE, n, lt, ln)

\* Values the `metrics` key may hold; Undefined is the key being absent.
MetricsValues ==
    { Undefined, JsNull, JsBool(FALSE), JsBool(TRUE), JsNumber(0), JsNumber(5),
      JsString(0), JsString(3),
      JsObject(0, "undefined", 0), JsObject(2, "undefined", 0),
      JsObject(0, "number", 2), JsObject(1, "number", -1),
      JsObject(0, "string", 1), JsObject(0, "null", 0) }
    \cup { JsArray(n) : n \in 0..MaxMetrics }

\* A parsed document: its own type and, for an object, its `metrics` value.
Doc(t, m) == [type |-> t, metrics |-> m]
NullDoc == Doc("null", Undefined)

Documents ==
    { NullDoc, Doc("number", Undefined), Doc("array", Undefined) }
    \cup { Doc("object", m) : m \in MetricsValues }

\* The text of a file: valid JSON that parses to doc, or not JSON at all.
NoText == [valid |-> FALSE, doc |-> NullDoc]
FileTexts == {NoText} \cup {[valid |-> TRUE, doc |-> d] : d \in Documents}

SyntaxError == [code |-> "", name |-> "SyntaxError",
                message |-> "Unexpected token i in JSON at position 2"]

NoMetricsFound == LogEntry("No metrics found in the file", 0, <<>>, 0, "")
NotAnArrayOrNoLength ==
    LogEntry("Metrics is not an array or does not have a length property",
             0, <<>>, 0, "")
InvalidJson == LogEntry("Invalid JSON - check the file format", 0, <<>>, 0, "")
UnknownError(d) == LogEntry("Unknown error:", 0, <<>>, 0, d)

----------------------------------------------------------------------------
(* State                                                                   *)

VARIABLES
    called,         \* the exported function the caller invoked
    pc,             \* position inside that function
    headers,        \* column names the csv parser read from the first line
    results,        \* readCSVData: rows pushed so far
    workoutData,    \* workoutCalculator: the awaited array
    totalWorkouts,  \* workoutCalculator: local const
    totalMinutes,   \* workoutCalculator: running sum, in tenths
    i,              \* workoutCalculator: loop index
    summedRows,     \* indices of the rows for which line 59 has run
    error,          \* the rejection caught by the catch block
    log,            \* console.log calls so far
    workoutResult,  \* value workoutCalculator returned
    jsonStr,        \* healthMetricsCounter: the text read from the file
    obj,            \* healthMetricsCounter: the parsed document
    healthResult,   \* value healthMetricsCounter returned
    main,           \* position inside processFiles ("none": not running)
    unhandled       \* the rejection of processFiles that nothing catches

vars == <<called, pc, headers, results, workoutData, totalWorkouts,
          totalMinutes, i, summedRows, error, log, workoutResult,
          jsonStr, obj, healthResult, main, unhandled>>

mainVars == <<main, unhandled>>

healthVars == <<jsonStr, obj, healthResult>>

workoutVars == <<headers, results, workoutData, totalWorkouts, totalMinutes,
                 i, summedRows, workoutResult>>

Init ==
    /\ called = "none"
    /\ pc = "idle"
    /\ headers = {}
    /\ results = <<>>
    /\ workoutData = <<>>
    /\ totalWorkouts = 0
    /\ totalMinutes = 0
    /\ i = 0
    /\ summedRows = {}
    /\ error = NoError
    /\ log = <<>>
    /\ workoutResult = Pending
    /\ jsonStr = NoText
    /\ obj = NullDoc
    /\ healthResult = NotReturned
    /\ main = "none"
    /\ unhandled = NoError

----------------------------------------------------------------------------
(* readCSVData                                                             *)

\* workoutCalculator(filepath) is called and readCSVData creates the stream.
CallWorkoutCalculator ==
    /\ pc = "idle"
    /\ called' = "workoutCalculator"
    /\ pc' = "open"
    /\ UNCHANGED <<headers, results, workoutData, totalWorkouts, totalMinutes,
                   i, summedRows, error, log, workoutResult>>
    /\ UNCHANGED healthVars
    /\ UNCHANGED mainVars

\* readStream.on('error'): the promise is rejected.  A path that does not
\* exist fails at open, before anything is read.
ReadStreamError ==
    /\ pc \in {"open", "rows"}
    /\ \E err \in (IF pc = "open" THEN {ENOENT, EACCES} ELSE {EIO}) :
          error' = err
    /\ pc' = "rejected"
    /\ UNCHANGED <<called, headers, results, workoutData, totalWorkouts,
                   totalMinutes, i, summedRows, log, workoutResult>>
    /\ UNCHANGED healthVars
    /\ UNCHANGED mainVars

\* The csv parser consumes the first line of the file as the header.
ParserHeaders ==
    /\ pc = "open"
    /\ \E h \in HeaderSets : headers' = h
    /\ pc' = "rows"
    /\ UNCHANGED <<called, results, workoutData, totalWorkouts, totalMinutes,
                   i, summedRows, error, log, workoutResult>>
    /\ UNCHANGED healthVars
    /\ UNCHANGED mainVars

\* parser.on('data'): one decoded row is pushed.
ParserData ==
    /\ pc = "rows"
    /\ Len(results) < MaxRows
    /\ \E row \in RowsFor(headers) : results' = Append(results, row)
    /\ UNCHANGED <<called, pc, headers, workoutData, totalWorkouts,
                   totalMinutes, i, summedRows, error, log, workoutResult>>
    /\ UNCHANGED healthVars
    /\ UNCHANGED mainVars

\* parser.on('error'): the promise is rejected.
ParserError ==
    /\ pc = "rows"
    /\ \E err \in ParserErrors : error' = err
    /\ pc' = "rejected"
    /\ UNCHANGED <<called, headers, results, workoutData, totalWorkouts,
                   totalMinutes, i, summedRows, log, workoutResult>>
    /\ UNCHANGED healthVars
    /\ UNCHANGED mainVars

\* parser.on('end'): the promise resolves with the rows; an empty file ends
\* before any header was read.
ParserEnd ==
    /\ pc \in {"open", "rows"}
    /\ workoutData' = results
    /\ pc' = "resolved"
    /\ UNCHANGED <<called, headers, results, totalWorkouts, totalMinutes, i,
                   summedRows, error, log, workoutResult>>
    /\ UNCHANGED healthVars
    /\ UNCHANGED mainVars

----------------------------------------------------------------------------
(* workoutCalculator                                                       *)

\* Array.isArray on the awaited value.
IsArray(v) == DOMAIN v = 1..Len(v)

\* A row counter that counts only the rows that carry a usable duration.
CountWorkouts_UsableOnly(data) ==
    Cardinality({k \in 1..Len(data) :
                    data[k].hasDuration /\ ~parseFloat(data[k].duration).nan})

\* const totalWorkouts = workoutData.length
CountWorkouts(data) == Len(data)

\* !workout || !workout.duration: the key is absent or its string is empty
\* (csv-parser never yields a null row, and every cell is a string).
NoDurationValue(workout) == ~workout.hasDuration \/ workout.duration = <<>>

\* The loop body that reports the row number counting from one.
RowOutcome_OneBased(idx, workout) ==
    IF NoDurationValue(workout)
    THEN [logs |-> <<MissingDuration(idx + 1)>>, add |-> 0, summed |-> FALSE]
    ELSE LET parsed == parseFloat(workout.duration)
         IN  IF parsed.nan
             THEN [logs |-> <<InvalidDuration(idx + 1, workout.duration)>>,
                   add |-> 0, summed |-> FALSE]
             ELSE [logs |-> IF parsed.val < 0
                            THEN <<NegativeDuration(idx + 1, parsed.val)>>
                            ELSE <<>>,
                   add |-> parsed.val, summed |-> TRUE]

\* One pass of the loop body on row idx (0-based): the console.log calls it
\* makes, the amount it adds to totalMinutes, and whether it reaches the
\* addition on line 59.  A negative value is logged and then still added.
RowOutcome(idx, workout) ==
    IF NoDurationValue(workout)
    THEN [logs |-> <<MissingDuration(idx)>>, add |-> 0, summed |-> FALSE]
    ELSE LET parsed == parseFloat(workout.duration)
         IN  IF parsed.nan
             THEN [logs |-> <<InvalidDuration(idx, workout.duration)>>,
                   add |-> 0, summed |-> FALSE]
             ELSE [logs |-> IF parsed.val < 0
                            THEN <<NegativeDuration(idx, parsed.val)>>
                            ELSE <<>>,
                   add |-> parsed.val, summed |-> TRUE]

\* String(error) for an Error object without a message is its name.
ErrorText(err) == IF err.message # "" THEN err.message ELSE err.name

\* A catch block that takes every error carrying a code for a missing file.
CatchMessage_AnyCode(err) ==
    IF err.code # "" THEN FileNotFound
    ELSE IF err.name = "Error" THEN CsvError(err.message)
    ELSE CsvError(ErrorText(err))

\* The console.log call of the catch block.
CatchMessage(err) ==
    IF err.code = "ENOENT" THEN FileNotFound
    ELSE IF err.name = "Error" THEN CsvError(err.message)
    ELSE CsvError(ErrorText(err))

\* An await continuation that takes an array without rows for a failure.
StartLoop_EmptyIsFailure ==
    /\ pc = "resolved"
    /\ IF ~IsArray(workoutData) \/ Len(workoutData) = 0
       THEN /\ log' = Append(log, NotAnArray)
            /\ workoutResult' = Null
            /\ pc' = "done"
            /\ UNCHANGED <<totalWorkouts, totalMinutes, i>>
       ELSE /\ totalWorkouts' = CountWorkouts(workoutData)
            /\ totalMinutes' = 0
            /\ i' = 0
            /\ pc' = "loop"
            /\ UNCHANGED <<log, workoutResult>>
    /\ UNCHANGED <<called, headers, results, workoutData, summedRows, error>>
    /\ UNCHANGED healthVars
    /\ UNCHANGED mainVars

\* The await returns: the array check and the loop initialisation.
StartLoop ==
    /\ pc = "resolved"
    /\ IF ~IsArray(workoutData)
       THEN /\ log' = Append(log, NotAnArray)
            /\ workoutResult' = Null
            /\ pc' = "done"
            /\ UNCHANGED <<totalWorkouts, totalMinutes, i>>
       ELSE /\ totalWorkouts' = CountWorkouts(workoutData)
            /\ totalMinutes' = 0
            /\ i' = 0
            /\ pc' = "loop"
            /\ UNCHANGED <<log, workoutResult>>
    /\ UNCHANGED <<called, headers, results, workoutData, summedRows, error>>
    /\ UNCHANGED healthVars
    /\ UNCHANGED mainVars

\* A loop pass that gives up on the whole file at the first invalid row.
LoopStep_Escalates ==
    /\ pc = "loop"
    /\ i < Len(workoutData)
    /\ LET out == RowOutcome(i, workoutData[i + 1])
       IN  IF ~NoDurationValue(workoutData[i + 1]) /\ ~out.summed
           THEN /\ log' = log \o out.logs
                /\ workoutResult' = Null
                /\ pc' = "done"
                /\ UNCHANGED <<totalMinutes, summedRows, i>>
           ELSE /\ log' = log \o out.logs
                /\ totalMinutes' = totalMinutes + out.add
                /\ summedRows' = IF out.summed THEN summedRows \cup {i}
                                 ELSE summedRows
                /\ i' = i + 1
                /\ UNCHANGED <<pc, workoutResult>>
    /\ UNCHANGED <<called, headers, results, workoutData, totalWorkouts, error>>
    /\ UNCHANGED healthVars
    /\ UNCHANGED mainVars

\* One pass of for (let i = 0; i < workoutData.length; i++).
LoopStep ==
    /\ pc = "loop"
    /\ i < Len(workoutData)
    /\ LET out == RowOutcome(i, workoutData[i + 1])
       IN  /\ log' = log \o out.logs
           /\ totalMinutes' = totalMinutes + out.add
           /\ summedRows' = IF out.summed THEN summedRows \cup {i}
                            ELSE summedRows
    /\ i' = i + 1
    /\ UNCHANGED <<called, pc, headers, results, workoutData, totalWorkouts,
                   error, workoutResult>>
    /\ UNCHANGED healthVars
    /\ UNCHANGED mainVars

\* return { totalWorkouts, totalMinutes }
ReturnAggregate ==
    /\ pc = "loop"
    /\ ~(i < Len(workoutData))
    /\ workoutResult' = Aggregate(totalWorkouts, totalMinutes)
    /\ pc' = "done"
    /\ UNCHANGED <<called, headers, results, workoutData, totalWorkouts,
                   totalMinutes, i, summedRows, error, log>>
    /\ UNCHANGED healthVars
    /\ UNCHANGED mainVars

\* catch (error): one diagnostic, then return null.
CatchWorkout ==
    /\ called = "workoutCalculator"
    /\ pc = "rejected"
    /\ log' = Append(log, CatchMessage(error))
    /\ workoutResult' = Null
    /\ pc' = "done"
    /\ UNCHANGED <<called, headers, results, workoutData, totalWorkouts,
                   totalMinutes, i, summedRows, error>>
    /\ UNCHANGED healthVars
    /\ UNCHANGED mainVars

----------------------------------------------------------------------------
(* healthMetricsCounter                                                    *)

\* ToBoolean: undefined, null, false, 0 and "" are falsy.
Truthy(v) ==
    CASE v.type \in {"undefined", "null"} -> FALSE
      [] v.type = "boolean" -> v.b
      [] v.type \in {"number", "string"} -> v.n # 0
      [] OTHER -> TRUE

\* obj.metrics: undefined unless obj is an object that has the key.
GetMetrics(o) == IF o.type = "object" THEN o.metrics ELSE Undefined

\* v.length for a truthy v.
GetLength(v) ==
    CASE v.type \in {"string", "array"} -> JsNumber(v.n)
      [] v.type = "object" /\ v.lenType = "number" -> JsNumber(v.lenN)
      [] v.type = "object" /\ v.lenType = "string" -> JsString(v.lenN)
      [] v.type = "object" /\ v.lenType = "null" -> JsNull
      [] OTHER -> Undefined

\* A counter that fails on a document without a usable metrics value.
CountMetrics_MissingIsFailure(o) ==
    IF o.type = "null" \/ ~Truthy(GetMetrics(o))
    THEN [logs |-> <<NoMetricsFound>>, ret |-> JsNull]
    ELSE IF GetMetrics(o).type # "array"
            /\ GetLength(GetMetrics(o)).type = "undefined"
    THEN [logs |-> <<NotAnArrayOrNoLength>>, ret |-> JsNull]
    ELSE [logs |-> <<>>, ret |-> GetLength(GetMetrics(o))]

\* A counter that takes a value without a length for an empty collection.
CountMetrics_NoLengthIsEmpty(o) ==
    IF o.type = "null" \/ ~Truthy(GetMetrics(o))
    THEN [logs |-> <<NoMetricsFound>>, ret |-> JsNumber(0)]
    ELSE IF GetMetrics(o).type # "array"
            /\ GetLength(GetMetrics(o)).type = "undefined"
    THEN [logs |-> <<NoMetricsFound>>, ret |-> JsNumber(0)]
    ELSE [logs |-> <<>>, ret |-> GetLength(GetMetrics(o))]

\* A counter that accepts arrays only.
CountMetrics_ArraysOnly(o) ==
    IF o.type = "null" \/ ~Truthy(GetMetrics(o))
    THEN [logs |-> <<NoMetricsFound>>, ret |-> JsNumber(0)]
    ELSE IF GetMetrics(o).type # "array"
    THEN [logs |-> <<NotAnArrayOrNoLength>>, ret |-> JsNull]
    ELSE [logs |-> <<>>, ret |-> GetLength(GetMetrics(o))]

\* The decision on the parsed document: the console.log calls and the
\* value returned.
CountMetrics(o) ==
    IF o.type = "null" \/ ~Truthy(GetMetrics(o))
    THEN [logs |-> <<NoMetricsFound>>, ret |-> JsNumber(0)]
    ELSE IF GetMetrics(o).type # "array"
            /\ GetLength(GetMetrics(o)).type = "undefined"
    THEN [logs |-> <<NotAnArrayOrNoLength>>, ret |-> JsNull]
    ELSE [logs |-> <<>>, ret |-> GetLength(GetMetrics(o))]

\* The console.log call of the catch block.
HealthCatchMessage(err) ==
    IF err.code = "ENOENT" THEN FileNotFound
    ELSE IF err.name = "SyntaxError" THEN InvalidJson
    ELSE UnknownError(err.message)

\* healthMetricsCounter(filePath) is called and starts fs.readFile.
CallHealthMetricsCounter ==
    /\ pc = "idle"
    /\ called' = "healthMetricsCounter"
    /\ pc' = "reading"
    /\ UNCHANGED <<error, log>>
    /\ UNCHANGED workoutVars
    /\ UNCHANGED healthVars
    /\ UNCHANGED mainVars

\* await fs.readFile resolves with the text of the file.
ReadFileResolves ==
    /\ pc = "reading"
    /\ \E text \in FileTexts : jsonStr' = text
    /\ pc' = "parse"
    /\ UNCHANGED <<called, error, log, obj, healthResult>>
    /\ UNCHANGED workoutVars
    /\ UNCHANGED mainVars

\* await fs.readFile rejects.
ReadFileRejects ==
    /\ pc = "reading"
    /\ \E err \in {ENOENT, EACCES} : error' = err
    /\ pc' = "rejected"
    /\ UNCHANGED <<called, log>>
    /\ UNCHANGED workoutVars
    /\ UNCHANGED healthVars
    /\ UNCHANGED mainVars

\* JSON.parse and the checks on the document.
ParseAndCount ==
    /\ pc = "parse"
    /\ IF ~jsonStr.valid
       THEN /\ error' = SyntaxError
            /\ pc' = "rejected"
            /\ UNCHANGED <<obj, log, healthResult>>
       ELSE /\ obj' = jsonStr.doc
            /\ log' = log \o CountMetrics(jsonStr.doc).logs
            /\ healthResult' = CountMetrics(jsonStr.doc).ret
            /\ pc' = "done"
            /\ UNCHANGED error
    /\ UNCHANGED <<called, jsonStr>>
    /\ UNCHANGED workoutVars
    /\ UNCHANGED mainVars

\* catch (error): one diagnostic, then return null.
CatchHealth ==
    /\ called = "healthMetricsCounter"
    /\ pc = "rejected"
    /\ log' = Append(log, HealthCatchMessage(error))
    /\ healthResult' = JsNull
    /\ pc' = "done"
    /\ UNCHANGED <<called, error, jsonStr, obj>>
    /\ UNCHANGED workoutVars
    /\ UNCHANGED mainVars

----------------------------------------------------------------------------

Next ==
    \/ CallWorkoutCalculator
    \/ ReadStreamError
    \/ ParserHeaders
    \/ ParserData
    \/ ParserError
    \/ ParserEnd
    \/ StartLoop
    \/ LoopStep
    \/ ReturnAggregate
    \/ CatchWorkout
    \/ CallHealthMetricsCounter
    \/ ReadFileResolves
    \/ ReadFileRejects
    \/ ParseAndCount
    \/ CatchHealth

Spec == Init /\ [][Next]_vars

----------------------------------------------------------------------------
(* processFiles                                                            *)

\* Values of process.env.WEEKLY_GOAL: unset, a number, not a number.
WeeklyGoals ==
    { [set |-> FALSE, text |-> <<>>],
      [set |-> TRUE, text |-> <<"3", "0">>],
      [set |-> TRUE, text |-> <<"a", "b", "c">>] }

\* JavaScript parseInt in base ten: white space, a sign, then decimal
\* digits; NaN when there is no digit.  val is in tenths.
parseInt(s) ==
    LET start  == SkipWhiteSpace(s, 1)
        signed == start <= Len(s) /\ s[start] \in {"+", "-"}
        p      == IF signed THEN start + 1 ELSE start
    IN  IF CountDigits(s, p) = 0 THEN NaN
        ELSE [nan |-> FALSE,
              val |-> (IF signed /\ s[start] = "-" THEN -1 ELSE 1)
                      * DigitsValue(s, p, CountDigits(s, p)) * 10]

\* parseInt(process.env.WEEKLY_GOAL): an unset variable is undefined.
GoalOf(goal) == IF goal.set THEN parseInt(goal.text) ELSE NaN

\* workoutData.totalMinutes >= parseInt(...): false against NaN.
GoalMet(minutes, goal) == ~GoalOf(goal).nan /\ minutes >= GoalOf(goal).val

\* TypeError of reading a property of null.
NullPropertyError ==
    [code |-> "", name |-> "TypeError",
     message |-> "Cannot read properties of null (reading 'totalWorkouts')"]

Say(m) == LogEntry(m, 0, <<>>, 0, "")
SayNumber(m, v) == LogEntry(m, 0, <<>>, v, "")
\* A logged JavaScript value: its type and its number.
SayValue(m, v) == LogEntry(m, 0, <<>>, v.n, v.type)

\* The lines printed once workoutCalculator has returned an aggregate.
WorkoutReport(w) ==
    << SayNumber("Total workouts:", w.totalWorkouts),
       SayNumber("Total minutes:", w.totalMinutes),
       Say("Reading health data...") >>

\* The lines printed once healthMetricsCounter has returned.
SummaryReport(w, h, goal) ==
    << SayValue("Total health entries:", h),
       Say("=== SUMMARY ==="),
       SayNumber("Workouts found:", w.totalWorkouts),
       SayNumber("Total workout minutes:", w.totalMinutes),
       SayValue("Health entries found:", h),
       LogEntry("Weekly goal:", 0, goal.text, 0, "minutes"),
       IF GoalMet(w.totalMinutes, goal)
       THEN Say("Congratulations! You have exceeded your weekly goal!")
       ELSE Say("Keep going! You are on your way to reaching your weekly goal!") >>

\* processFiles() is called: two lines are printed and workoutCalculator
\* is called and awaited.
ProcessFilesStart ==
    /\ main = "none"
    /\ pc = "idle"
    /\ log' = log \o <<Say("Processing data for:"), Say("Reading workout data...")>>
    /\ main' = "workout"
    /\ called' = "workoutCalculator"
    /\ pc' = "open"
    /\ UNCHANGED <<error, unhandled>>
    /\ UNCHANGED workoutVars
    /\ UNCHANGED healthVars

\* The await of workoutCalculator returns: workoutData.totalWorkouts is
\* read.  On null that throws, the promise of processFiles rejects and
\* nothing catches it; otherwise healthMetricsCounter is called and awaited.
AfterWorkout ==
    /\ main = "workout"
    /\ pc = "done"
    /\ IF workoutResult = Null
       THEN /\ unhandled' = NullPropertyError
            /\ main' = "rejected"
            /\ UNCHANGED <<called, pc, log>>
       ELSE /\ log' = log \o WorkoutReport(workoutResult)
            /\ main' = "health"
            /\ called' = "healthMetricsCounter"
            /\ pc' = "reading"
            /\ UNCHANGED unhandled
    /\ UNCHANGED error
    /\ UNCHANGED workoutVars
    /\ UNCHANGED healthVars

\* The await of healthMetricsCounter returns: the count and the summary are
\* printed and the total is compared with the weekly goal.
AfterHealth ==
    /\ main = "health"
    /\ pc = "done"
    /\ \E goal \in WeeklyGoals :
          log' = log \o SummaryReport(workoutResult, healthResult, goal)
    /\ main' = "summary"
    /\ UNCHANGED <<called, pc, error, unhandled>>
    /\ UNCHANGED workoutVars
    /\ UNCHANGED healthVars

\* The entry script: processFiles drives both readers.
NextMain ==
    \/ ProcessFilesStart
    \/ ReadStreamError
    \/ ParserHeaders
    \/ ParserData
    \/ ParserError
    \/ ParserEnd
    \/ StartLoop
    \/ LoopStep
    \/ ReturnAggregate
    \/ CatchWorkout
    \/ AfterWorkout
    \/ ReadFileResolves
    \/ ReadFileRejects
    \/ ParseAndCount
    \/ CatchHealth
    \/ AfterHealth

SpecMain == Init /\ [][NextMain]_vars

----------------------------------------------------------------------------
(* Vocabulary of the properties                                            *)

WorkoutDone == called = "workoutCalculator" /\ pc = "done"
HealthDone  == called = "healthMetricsCounter" /\ pc = "done"

\* The 0-based indices of the decoded rows, and the row at an index.
RowIndices == 0..(Len(results) - 1)
RowAt(k) == results[k + 1]

\* Number of console.log calls with message m that cite row r.
CountLog(m, r) ==
    Cardinality({j \in 1..Len(log) : log[j].msg = m /\ log[j].row = r})

\* Number of console.log calls with message m.
CountMsg(m) == Cardinality({j \in 1..Len(log) : log[j].msg = m})

\* The duration field is absent or the empty string.
AbsentOrEmpty(row) == ~row.hasDuration \/ Len(row.duration) = 0

\* The duration parses to a number / to no number at all.
Parsed(row) == parseFloat(row.duration)
HasNumericPrefix(row) == ~AbsentOrEmpty(row) /\ ~Parsed(row).nan
NoNumericPrefix(row)  == ~AbsentOrEmpty(row) /\ Parsed(row).nan

\* Sum of the parsed values of the rows whose indices are in S.
RECURSIVE SumParsed(_)
SumParsed(S) ==
    IF S = {} THEN 0
    ELSE LET k == CHOOSE x \in S : TRUE
         IN  Parsed(RowAt(k)).val + SumParsed(S \ {k})

\* A plain decimal numeral: digits with at most one dot, at least one digit.
IsPlainDecimal(s) ==
    /\ Len(s) > 0
    /\ \A k \in 1..Len(s) : s[k] \in Digits \cup {"."}
    /\ Cardinality({k \in 1..Len(s) : s[k] = "."}) <= 1
    /\ \E k \in 1..Len(s) : s[k] \in Digits

\* The value of a plain decimal numeral in tenths, by place value.
RECURSIVE PlaceSum(_, _, _)
PlaceSum(s, dot, k) ==
    IF k > Len(s) THEN 0
    ELSE (IF k < dot THEN DigitVal(s[k]) * Pow10(dot - k)
          ELSE IF k = dot + 1 THEN DigitVal(s[k])
          ELSE 0)
         + PlaceSum(s, dot, k + 1)

DecimalValue(s) ==
    LET dots == {k \in 1..Len(s) : s[k] = "."}
        dot  == IF dots = {} THEN Len(s) + 1 ELSE CHOOSE k \in dots : TRUE
    IN  PlaceSum(s, dot, 1)

FullyNumeric(row) == row.hasDuration /\ IsPlainDecimal(row.duration)

RECURSIVE ExactSum(_)
ExactSum(rows) ==
    IF rows = <<>> THEN 0
    ELSE DecimalValue(Head(rows).duration) + ExactSum(Tail(rows))

----------------------------------------------------------------------------
(* C1 *)

\* C1: a row whose duration parses to a value below zero adds nothing to
\* totalMinutes: the total returned is the sum of the parsed values of the
\* rows that parse to zero or more, and so is never negative.
C1_NegativeRowsExcluded ==
    (WorkoutDone /\ workoutResult.kind = "aggregate") =>
        /\ workoutResult.totalMinutes =
              SumParsed({k \in RowIndices :
                            HasNumericPrefix(RowAt(k)) /\ Parsed(RowAt(k)).val >= 0})
        /\ workoutResult.totalMinutes >= 0

----------------------------------------------------------------------------
(* C2 *)

MissingDurationColumn ==
    LogEntry("CSV file is missing the \"duration\" column - check the headers",
             0, <<>>, 0, "")

\* C2: when the file read declares no duration column (an empty header set
\* included), workoutCalculator returns null and logs the diagnostic that
\* names the missing duration column; it never returns an aggregate.
C2_NoDurationColumnIsNull ==
    (WorkoutDone /\ error = NoError /\ "duration" \notin headers) =>
        /\ workoutResult = Null
        /\ \E j \in 1..Len(log) : log[j] = MissingDurationColumn

----------------------------------------------------------------------------
(* C3 *)

\* C3: whenever an aggregate is returned, totalWorkouts is the number of
\* row records the parser decoded, whatever their durations are.
C3_TotalWorkoutsIsRowCount ==
    (WorkoutDone /\ workoutResult.kind = "aggregate") =>
        workoutResult.totalWorkouts = Len(results)

\* Three rows, one without a duration, one invalid, one negative.
C3_Witness ==
    /\ WorkoutDone
    /\ workoutResult.kind = "aggregate"
    /\ workoutResult.totalWorkouts = 3
    /\ \E a, b, c \in RowIndices :
          /\ AbsentOrEmpty(RowAt(a))
          /\ NoNumericPrefix(RowAt(b))
          /\ HasNumericPrefix(RowAt(c)) /\ Parsed(RowAt(c)).val < 0

----------------------------------------------------------------------------
(* C4 *)

----------------------------------------------------------------------------
(* C5 *)

\* C5: each row whose duration is absent or the empty string adds exactly 0
\* to totalMinutes and produces exactly one "missing duration" diagnostic
\* citing its 0-based index; no other row produces that diagnostic.
C5_MissingRows ==
    (WorkoutDone /\ workoutResult.kind = "aggregate") =>
        /\ \A k \in RowIndices :
              CountLog("Warning: missing duration", k) =
                 (IF AbsentOrEmpty(RowAt(k)) THEN 1 ELSE 0)
        /\ CountMsg("Warning: missing duration") =
              Cardinality({k \in RowIndices : AbsentOrEmpty(RowAt(k))})
        /\ \A k \in RowIndices : AbsentOrEmpty(RowAt(k)) => k \notin summedRows
        /\ workoutResult.totalMinutes =
              SumParsed({k \in RowIndices : ~AbsentOrEmpty(RowAt(k))
                                            /\ ~Parsed(RowAt(k)).nan})

\* 30, then an empty cell, then 7.5: the total is 37.5 and row 1 is cited.
C5_Witness ==
    /\ WorkoutDone
    /\ Len(results) = 3
    /\ RowAt(0).duration = <<"3", "0">>
    /\ RowAt(1).hasDuration /\ RowAt(1).duration = <<>>
    /\ RowAt(2).duration = <<"7", ".", "5">>
    /\ workoutResult = Aggregate(3, 375)
    /\ log = <<MissingDuration(1)>>

----------------------------------------------------------------------------
(* C6 *)

\* The classes a decoded row falls in, read off the diagnostics that cite
\* it and off whether it reached the addition.
ClassesOf(k) ==
    (IF CountLog("Warning: missing duration", k) > 0 THEN {"MISSING"} ELSE {})
    \cup (IF CountLog("Warning: invalid duration", k) > 0 THEN {"INVALID"} ELSE {})
    \cup (IF CountLog("Warning: negative duration", k) > 0 THEN {"NEGATIVE"} ELSE {})
    \cup (IF k \in summedRows THEN {"SUMMED"} ELSE {})

\* C6: a row whose non-empty duration has no numeric prefix is INVALID: it
\* adds 0 and produces exactly one "invalid duration" diagnostic with its
\* 0-based index and raw value; a row with a numeric prefix adds exactly the
\* parsed prefix; and every row is in exactly one of the classes MISSING,
\* INVALID, NEGATIVE and summed.
C6_ExactlyOneClass ==
    (WorkoutDone /\ workoutResult.kind = "aggregate") =>
        /\ \A k \in RowIndices :
              NoNumericPrefix(RowAt(k)) =>
                 /\ k \notin summedRows
                 /\ CountLog("Warning: invalid duration", k) = 1
                 /\ \E j \in 1..Len(log) :
                       log[j] = InvalidDuration(k, RowAt(k).duration)
        /\ workoutResult.totalMinutes =
              SumParsed({k \in RowIndices : HasNumericPrefix(RowAt(k))})
        /\ \A k \in RowIndices : Cardinality(ClassesOf(k)) = 1

----------------------------------------------------------------------------
(* C7 *)

----------------------------------------------------------------------------
(* C8 *)

ReturnedNull ==
    IF called = "workoutCalculator" THEN workoutResult = Null
    ELSE healthResult = JsNull

\* C8: when the file cannot be opened because the path does not exist,
\* workoutCalculator and healthMetricsCounter return null and log "File not
\* found"; any other read or decode failure also returns null, with exactly
\* one diagnostic, which is not the file-not-found message.
C8_ReadFailureIsNull ==
    (pc = "done" /\ error # NoError) =>
        /\ ReturnedNull
        /\ Len(log) = 1
        /\ (log[1] = FileNotFound) <=> (error.code = "ENOENT")

\* workoutCalculator on a path that exists but cannot be read.
C8_Witness ==
    /\ WorkoutDone
    /\ error = EACCES
    /\ workoutResult = Null
    /\ log = <<CsvError(EACCES.message)>>

----------------------------------------------------------------------------
(* C9 *)

Metrics == GetMetrics(obj)

\* The value is an empty string, an empty array or an object without keys.
IsEmptyValue(v) ==
    \/ v.type \in {"string", "array"} /\ v.n = 0
    \/ v.type = "object" /\ v.n = 0 /\ v.lenType = "undefined"

----------------------------------------------------------------------------
(* C10 *)

\* The value has no length: a boolean, a number, or an object without a
\* `length` property.
HasNoLength(v) ==
    \/ v.type \in {"boolean", "number"}
    \/ v.type = "object" /\ v.lenType = "undefined"

----------------------------------------------------------------------------
(* C11 *)

\* The metrics value is a collection: an array, a string, or an object
\* that carries its own `length` field.
IsCollection(v) ==
    \/ v.type \in {"array", "string"}
    \/ v.type = "object" /\ v.lenType # "undefined"

\* The number of entries of a collection; for an object, the number its
\* `length` field states.
EntriesOf(v) == IF v.type = "object" THEN v.lenN ELSE v.n

----------------------------------------------------------------------------
(* C12 *)

\* C12: a file whose header declares duration and that has no data rows
\* makes workoutCalculator return {totalWorkouts: 0, totalMinutes: 0} and
\* log nothing.
C12_HeaderOnlyIsZero ==
    (WorkoutDone /\ error = NoError /\ "duration" \in headers
       /\ Len(results) = 0) =>
        /\ workoutResult = Aggregate(0, 0)
        /\ log = <<>>

\* The header date,duration was read and the parser ended without a row.
C12_Witness ==
    /\ WorkoutDone
    /\ error = NoError
    /\ headers = {"date", "duration"}
    /\ results = <<>>
    /\ workoutResult = Aggregate(0, 0)
    /\ log = <<>>

----------------------------------------------------------------------------
(* C13 *)

\* processFiles has ended: it printed the summary or its promise rejected.
RunEnded == main \in {"summary", "rejected"}

\* C13: in processFiles a failed pipeline ends that pipeline only: when
\* workoutCalculator returns null, healthMetricsCounter is still called
\* afterwards and the run reaches the summary without an uncaught
\* exception; a null health count does not prevent the summary either.
C13_FailureEndsOnePipelineOnly ==
    /\ (RunEnded /\ workoutResult = Null) =>
          /\ healthResult # NotReturned
          /\ main = "summary"
          /\ unhandled = NoError
    /\ (RunEnded /\ healthResult = JsNull) =>
          main = "summary" /\ unhandled = NoError

====
